---------------------------- MODULE Spec2Model ----------------------------
(***************************************************************************)
(* Store-monitoring report service (src/app.py).                           *)
(*                                                                         *)
(* Two parts are modelled:                                                 *)
(*   - the estimation pipeline run by generate_report for every store:     *)
(*     get_poll_data_of_store, get_business_hours_of_store,                *)
(*     filter_status_by_business_hours, downsampled_data, uptime_today,    *)
(*     uptime_hours_this_week;                                             *)
(*   - the two HTTP handlers trigger_report and get_report, at the         *)
(*     granularity of their individual operations on the reports           *)
(*     collection, which also holds the sentinel document.                 *)
(*                                                                         *)
(* Time.  An instant is a number of seconds since Monday 2024-01-08        *)
(* 00:00:00 UTC.  A naive datetime (no tzinfo) is the same kind of number, *)
(* read on some wall clock.  A time of day "HH:MM:SS" is a number of       *)
(* seconds in 0..86399; the strings compare as these numbers do.           *)
(* A well-formed timestamp string sorts as its instant does.               *)
(*                                                                         *)
(* Floats.  A float is an exact fraction [n, d]; d = 0 is NaN.             *)
(***************************************************************************)
EXTENDS Integers, Sequences, FiniteSets, TLC

\* ------------------------------------------------------------ bounds
\* trigger_report requests in one behaviour
NumTrigger == 2
\* get_report requests in one behaviour
NumGet == 1
\* observation documents in the store_status collection (PipeSpec)
MaxObs == 3

TReqs == 1..NumTrigger
GReqs == 1..NumGet

\* ------------------------------------------------------------ time
SecondsPerHour == 60 * 60
SecondsPerDay == 24 * SecondsPerHour
DaysPerWeek == 7
Weekdays == 0..(DaysPerWeek - 1)

\* datetime.weekday(): Monday = 0 .. Sunday = 6
Weekday(dt) == (dt \div SecondsPerDay) % DaysPerWeek
\* strftime("%H:%M:%S")
TimeOfDay(dt) == dt % SecondsPerDay
HourOf(tod) == tod \div SecondsPerHour

\* pytz.timezone(name), as the offset the zone has in January 2024
UtcOffset(tz) ==
    CASE tz = "America/Chicago" -> -6 * SecondsPerHour
      [] tz = "Asia/Kolkata"    -> 5 * SecondsPerHour + 1800
      [] tz = "UTC"             -> 0

\* ------------------------------------------------------------ floats
Float(k) == [n |-> k, d |-> 1]
isnan(x) == x.d = 0
FAdd(a, b) == [n |-> a.n * b.d + b.n * a.d, d |-> a.d * b.d]
FSub(a, b) == [n |-> a.n * b.d - b.n * a.d, d |-> a.d * b.d]
FMul(a, k) == [n |-> a.n * k, d |-> a.d]
\* a <= k and 0 <= a, for a number a (never true of NaN)
FLeInt(a, k) == a.d > 0 /\ a.n <= k * a.d
FNonNeg(a) == a.d > 0 /\ a.n >= 0

VARIABLES
    store_status,            \* collection: observation documents
    timezone_coll,           \* collection: {store_id, timezone_str}
    menu_hours_coll,         \* collection: {store_id, day, start, end}
    reports_coll,            \* collection, in natural (insertion) order
    now_utc,                 \* the instant the process runs at
    proc_offset,             \* UTC offset of the clock datetime.now() reads
    uuids,                   \* number of uuid4() values drawn so far
    pc,                      \* trigger_report: position of each request
    report_id,               \* trigger_report: local report_id
    idx,                     \* generate_report: position in the store loop
    store_poll_data,         \* generate_report: local of the iteration
    store_poll_data_per_day, \* generate_report: local of the iteration
    result,                  \* generate_report: rows so far
    exc,                     \* trigger_report: the exception that ended it
    response,                \* trigger_report: the JSONResponse
    gpc,                     \* get_report: position of each request
    report_request,          \* get_report: the requested report_id
    running_doc,             \* get_report: local (<<>> is None)
    completed_report,        \* get_report: local (<<>> is None)
    gresponse                \* get_report: the JSONResponse

envVars == <<store_status, timezone_coll, menu_hours_coll, now_utc, proc_offset>>
trigVars == <<pc, report_id, idx, store_poll_data, store_poll_data_per_day,
              result, exc, response>>
getVars == <<gpc, report_request, running_doc, completed_report, gresponse>>
vars == <<envVars, reports_coll, uuids, trigVars, getVars>>

\* ------------------------------------------------------------ pipeline

\* datetime.now(): naive, on the process's local clock
DatetimeNow == now_utc + proc_offset

\* utc_to_local: parse as UTC, convert to the zone, format, parsed again by
\* the caller: the naive local datetime
utc_to_local(instant, timezone_str) == instant + UtcOffset(timezone_str)

get_timezone_using_store_id(store_id) ==
    LET found == {t \in timezone_coll : t.store_id = store_id}
    IN IF found = {} THEN "America/Chicago"
       ELSE (CHOOSE t \in found : TRUE).timezone_str

RECURSIVE SortAscending(_)
SortAscending(S) ==
    IF S = {} THEN <<>>
    ELSE LET m == CHOOSE x \in S : \A y \in S : x <= y
         IN <<m>> \o SortAscending(S \ {m})

\* store_status_coll.distinct("store_id")
get_unique_store_ids_from_poll ==
    SortAscending({d.store_id : d \in store_status})

\* result.sort([("timestamp_utc", ASCENDING)])
RECURSIVE SortByTimestamp(_)
SortByTimestamp(S) ==
    IF S = {} THEN <<>>
    ELSE LET m == CHOOSE x \in S : \A y \in S :
                      x.timestamp_utc.instant <= y.timestamp_utc.instant
         IN <<m>> \o SortByTimestamp(S \ {m})

EmptyBuckets == [day \in Weekdays |-> <<>>]

\* the loop of get_poll_data_of_store over well-formed documents
RECURSIVE BucketDocs(_, _, _)
BucketDocs(docs, tz, data) ==
    IF docs = <<>> THEN data
    ELSE LET doc == Head(docs)
         IN IF doc.timestamp_utc.instant > DatetimeNow
            THEN BucketDocs(Tail(docs), tz, data)
            ELSE LET local_time == utc_to_local(doc.timestamp_utc.instant, tz)
                     entry == [timestamp_local |-> TimeOfDay(local_time),
                               status |-> IF doc.status = "active" THEN 1 ELSE 0]
                 IN BucketDocs(Tail(docs), tz,
                        [data EXCEPT ![Weekday(local_time)] = Append(@, entry)])

\* strptime raises ValueError on the first document that does not parse
get_poll_data_of_store(store_id) ==
    LET docs == {d \in store_status : d.store_id = store_id}
    IN IF \E d \in docs : ~d.timestamp_utc.parses
       THEN [ok |-> FALSE, data |-> EmptyBuckets]
       ELSE [ok |-> TRUE,
             data |-> BucketDocs(SortByTimestamp(docs),
                                 get_timezone_using_store_id(store_id),
                                 EmptyBuckets)]

FullDay == {[start_time_local |-> 0, end_time_local |-> SecondsPerDay - 1]}

get_business_hours_of_store(store_id) ==
    [day \in Weekdays |->
        LET hours == {[start_time_local |-> rec.start_time_local,
                       end_time_local |-> rec.end_time_local] :
                      rec \in {m \in menu_hours_coll :
                                 m.store_id = store_id /\ m.day = day}}
        IN IF hours = {} THEN FullDay ELSE hours]

InHours(entry, hours) ==
    hours.start_time_local <= entry.timestamp_local
    /\ entry.timestamp_local <= hours.end_time_local

filter_status_by_business_hours(day_status, day_business_hours) ==
    SelectSeq(day_status,
              LAMBDA entry : \E hours \in day_business_hours : InHours(entry, hours))

\* sorted(..., key=lambda x: x["timestamp_local"]): stable insertion sort
RECURSIVE InsertSorted(_, _)
InsertSorted(sorted, e) ==
    IF sorted = <<>> THEN <<e>>
    ELSE IF e.timestamp_local < Head(sorted).timestamp_local
         THEN <<e>> \o sorted
         ELSE <<Head(sorted)>> \o InsertSorted(Tail(sorted), e)

RECURSIVE SortedByLocal(_)
SortedByLocal(s) ==
    IF s = <<>> THEN <<>>
    ELSE InsertSorted(SortedByLocal(SubSeq(s, 1, Len(s) - 1)), s[Len(s)])

\* (mutant of Mean: the bin's sum instead of its mean)
MeanAsSum(data, hour) ==
    [n |-> Cardinality({i \in 1..Len(data) :
                HourOf(data[i].timestamp_local) = hour /\ data[i].status = 1}),
     d |-> IF \E i \in 1..Len(data) : HourOf(data[i].timestamp_local) = hour
           THEN 1 ELSE 0]

\* the mean of the status values of one hourly bin (NaN for an empty bin)
Mean(data, hour) ==
    [n |-> Cardinality({i \in 1..Len(data) :
                HourOf(data[i].timestamp_local) = hour /\ data[i].status = 1}),
     d |-> Cardinality({i \in 1..Len(data) :
                HourOf(data[i].timestamp_local) = hour})]

\* df.resample("60T").mean(): one bin per clock hour from the first
\* observation's hour to the last one's; an empty DataFrame iterates as empty
downsampled_data(data) ==
    IF data = <<>> THEN <<>>
    ELSE LET first == HourOf(data[1].timestamp_local)
             last == HourOf(data[Len(data)].timestamp_local)
         IN [i \in 1..(last - first + 1) |->
                [timestamp_local |-> (first + i - 1) * SecondsPerHour,
                 status |-> Mean(data, first + i - 1)]]

get_store_poll_data_per_day(poll_data, business_hours) ==
    [day \in Weekdays |->
        downsampled_data(SortedByLocal(
            filter_status_by_business_hours(poll_data[day], business_hours[day])))]

NumOrZero(x) == IF isnan(x) THEN Float(0) ELSE x

RECURSIVE SumStatus(_)
SumStatus(day_data) ==
    IF day_data = <<>> THEN Float(0)
    ELSE FAdd(SumStatus(SubSeq(day_data, 1, Len(day_data) - 1)),
              NumOrZero(day_data[Len(day_data)].status))

\* datetime.now().weekday() - 1
last_weekday == Weekday(DatetimeNow) - 1

\* (datetime.now() - timedelta(hours=1)).strftime("%H:00:00")
last_hour == HourOf(TimeOfDay(DatetimeNow - SecondsPerHour)) * SecondsPerHour

MinutesPerHour == 60

\* minutes_last_hour: set by the matching entry (the last one, were there several)
RECURSIVE MinutesLastHour(_)
MinutesLastHour(day_data) ==
    IF day_data = <<>> THEN Float(0)
    ELSE LET e == day_data[Len(day_data)]
         IN IF e.timestamp_local = last_hour
            THEN FMul(NumOrZero(e.status), MinutesPerHour)
            ELSE MinutesLastHour(SubSeq(day_data, 1, Len(day_data) - 1))

\* store_poll_data_per_day[str(last_weekday)] raises KeyError for a missing key
uptime_today(per_day) ==
    IF last_weekday \notin DOMAIN per_day
    THEN [ok |-> FALSE, hours_today |-> Float(0), minutes_last_hour |-> Float(0)]
    ELSE [ok |-> TRUE,
          hours_today |-> SumStatus(per_day[last_weekday]),
          minutes_last_hour |-> MinutesLastHour(per_day[last_weekday])]

RECURSIVE SumDays(_, _)
SumDays(per_day, weekday) ==
    IF weekday < 0 THEN Float(0)
    ELSE FAdd(SumDays(per_day, weekday - 1), SumStatus(per_day[weekday]))

uptime_hours_this_week(per_day) == SumDays(per_day, DaysPerWeek - 1)

WindowHour == 60
WindowDay == 24
WindowWeek == 168

current_result(store_id, minutes_last_hour, hours_today, hours_this_week) ==
    [store_id |-> store_id,
     uptime_last_hour |-> minutes_last_hour,
     downtime_last_hour |-> FSub(Float(WindowHour), minutes_last_hour),
     uptime_last_day |-> hours_today,
     downtime_last_day |-> FSub(Float(WindowDay), hours_today),
     uptime_last_week |-> hours_this_week,
     downtime_last_week |-> FSub(Float(WindowWeek), hours_this_week)]

\* ------------------------------------------------------------ reports_coll

\* a query document matches a document holding each of its fields
Matches(doc, query) ==
    \A k \in DOMAIN query : k \in DOMAIN doc /\ doc[k] = query[k]

find(query) == SelectSeq(reports_coll, LAMBDA doc : Matches(doc, query))

\* <<>> is None
find_one(query) ==
    IF find(query) = <<>> THEN <<>> ELSE <<Head(find(query))>>

SetFields(doc, set) ==
    [k \in DOMAIN doc \cup DOMAIN set |->
        IF k \in DOMAIN set THEN set[k] ELSE doc[k]]

\* update_one without upsert: the first matching document, or nothing
update_one(query, set) ==
    IF find(query) = <<>> THEN reports_coll
    ELSE LET i == CHOOSE i \in 1..Len(reports_coll) :
                    /\ Matches(reports_coll[i], query)
                    /\ \A j \in 1..(i - 1) : ~Matches(reports_coll[j], query)
         IN [reports_coll EXCEPT ![i] = SetFields(@, set)]

insert_one(doc) == Append(reports_coll, doc)

\* the sentinel document, set up with the database: complete, no run yet
InitialSentinel == [sentinel_id |-> 0, status |-> "complete"]

Sentinel == Head(find([sentinel_id |-> 0]))

\* ------------------------------------------------------------ trigger_report

\* (mutant of RunningDocQuery: a filter that asks for the wrong status)
RunningDocQueryWrongStatus == [sentinel_id |-> 0, status |-> "complete "]

\* {"sentinel_id": 0, "status": "running"}
RunningDocQuery == [sentinel_id |-> 0, status |-> "running"]

Raise(r, name) ==
    /\ pc' = [pc EXCEPT ![r] = "raised"]
    /\ exc' = [exc EXCEPT ![r] = name]
    /\ response' = [response EXCEPT ![r] = [status_code |-> 500]]

\* lines 296-304: read the sentinel; answer "Running" if a run is in flight
T_FindRunning(r) ==
    /\ pc[r] = "start"
    /\ LET doc == find_one(RunningDocQuery)
       IN IF doc # <<>>
          THEN /\ response' = [response EXCEPT ![r] =
                      [status_code |-> 400, message |-> "Running",
                       report_id |-> doc[1].report_id]]
               /\ pc' = [pc EXCEPT ![r] = "done"]
          ELSE /\ pc' = [pc EXCEPT ![r] = "set_running"]
               /\ UNCHANGED response
    /\ UNCHANGED <<envVars, reports_coll, uuids, report_id, idx, store_poll_data,
                   store_poll_data_per_day, result, exc, getVars>>

\* lines 307-313: a fresh report id; the sentinel goes from complete to running
T_SetRunning(r) ==
    /\ pc[r] = "set_running"
    /\ uuids' = uuids + 1
    /\ report_id' = [report_id EXCEPT ![r] = uuids + 1]
    /\ reports_coll' = update_one([sentinel_id |-> 0, status |-> "complete"],
                                  [status |-> "running", report_id |-> uuids + 1])
    /\ result' = [result EXCEPT ![r] = <<>>]
    /\ idx' = [idx EXCEPT ![r] = 1]
    /\ pc' = [pc EXCEPT ![r] = "generate"]
    /\ UNCHANGED <<envVars, store_poll_data, store_poll_data_per_day, exc,
                   response, getVars>>

\* generate_report, lines 255-286: one iteration of the loop over the stores.
\* An exception of get_poll_data_of_store or of uptime_today is caught
\* nowhere: it ends generate_report and the request.
T_Site(r) ==
    /\ pc[r] = "generate"
    /\ idx[r] <= Len(get_unique_store_ids_from_poll)
    /\ LET store_id == get_unique_store_ids_from_poll[idx[r]]
           poll == get_poll_data_of_store(store_id)
           per_day == get_store_poll_data_per_day(poll.data,
                          get_business_hours_of_store(store_id))
           today == uptime_today(per_day)
           hours_this_week == uptime_hours_this_week(per_day)
       IN IF ~poll.ok
          THEN /\ Raise(r, "ValueError")
               /\ UNCHANGED <<store_poll_data, store_poll_data_per_day,
                              result, idx>>
          ELSE /\ store_poll_data' = [store_poll_data EXCEPT ![r] = poll.data]
               /\ store_poll_data_per_day' =
                      [store_poll_data_per_day EXCEPT ![r] = per_day]
               /\ IF ~today.ok
                  THEN /\ Raise(r, "KeyError")
                       /\ UNCHANGED <<result, idx>>
                  ELSE /\ result' = [result EXCEPT ![r] = Append(@,
                              current_result(store_id, today.minutes_last_hour,
                                  today.hours_today, hours_this_week))]
                       /\ idx' = [idx EXCEPT ![r] = @ + 1]
                       /\ UNCHANGED <<pc, exc, response>>
    /\ UNCHANGED <<envVars, reports_coll, uuids, report_id, getVars>>

\* lines 315-318: generate_report has returned; the report is persisted
T_InsertReport(r) ==
    /\ pc[r] = "generate"
    /\ idx[r] > Len(get_unique_store_ids_from_poll)
    /\ reports_coll' = insert_one([report_id |-> report_id[r],
                                   report |-> result[r],
                                   report_status |-> "complete"])
    /\ pc' = [pc EXCEPT ![r] = "release"]
    /\ UNCHANGED <<envVars, uuids, report_id, idx, store_poll_data,
                   store_poll_data_per_day, result, exc, response, getVars>>

\* lines 319-326: the sentinel goes back to complete
T_Release(r) ==
    /\ pc[r] = "release"
    /\ reports_coll' = update_one([sentinel_id |-> 0], [status |-> "complete"])
    /\ response' = [response EXCEPT ![r] =
           [status_code |-> 200, message |-> "Complete",
            report_id |-> report_id[r]]]
    /\ pc' = [pc EXCEPT ![r] = "done"]
    /\ UNCHANGED <<envVars, uuids, report_id, idx, store_poll_data,
                   store_poll_data_per_day, result, exc, getVars>>

trigger_report(r) ==
    \/ T_FindRunning(r)
    \/ T_SetRunning(r)
    \/ T_Site(r)
    \/ T_InsertReport(r)
    \/ T_Release(r)

\* ------------------------------------------------------------ get_report

\* A caller asks for a report id a trigger_report response has told it
\* ("Complete" or "Running"), or for one that is no run's id (0).
RequestIds ==
    {0} \cup {response[r].report_id :
                r \in {q \in TReqs : response[q].status_code \in {200, 400}}}

\* lines 335-337
G_FindRunning(g, id) ==
    /\ gpc[g] = "start"
    /\ report_request' = [report_request EXCEPT ![g] = id]
    /\ running_doc' = [running_doc EXCEPT ![g] = find_one(RunningDocQuery)]
    /\ gpc' = [gpc EXCEPT ![g] = "find_completed"]
    /\ UNCHANGED <<envVars, reports_coll, uuids, trigVars, completed_report,
                   gresponse>>

\* lines 339-341
G_FindCompleted(g) ==
    /\ gpc[g] = "find_completed"
    /\ completed_report' = [completed_report EXCEPT ![g] =
           find_one([report_id |-> report_request[g],
                     report_status |-> "complete"])]
    /\ gpc' = [gpc EXCEPT ![g] = "respond"]
    /\ UNCHANGED <<envVars, reports_coll, uuids, trigVars, report_request,
                   running_doc, gresponse>>

\* (mutant of RespondTo: the completed report is looked at before the sentinel)
RespondCompletedFirst(g) ==
    IF completed_report[g] # <<>>
    THEN LET data == find([report_id |-> report_request[g]])
         IN IF "report" \in DOMAIN data[1]
            THEN [status_code |-> 200, content |-> data[1].report]
            ELSE [status_code |-> 500, raised |-> "KeyError"]
    ELSE IF running_doc[g] # <<>>
    THEN [status_code |-> 400, message |-> "Running",
          report_id |-> running_doc[g][1].report_id]
    ELSE [status_code |-> 404, message |-> "invalid report id"]

\* lines 343-359; data[0] is the first document find() yields, in natural
\* order; data[0]["report"] raises KeyError on a document with no such field.
\* The content is the report's rows (their CSV rendering is not modelled).
RespondTo(g) ==
    IF running_doc[g] # <<>>
    THEN [status_code |-> 400, message |-> "Running",
          report_id |-> running_doc[g][1].report_id]
    ELSE IF completed_report[g] # <<>>
    THEN LET data == find([report_id |-> report_request[g]])
         IN IF "report" \in DOMAIN data[1]
            THEN [status_code |-> 200, content |-> data[1].report]
            ELSE [status_code |-> 500, raised |-> "KeyError"]
    ELSE [status_code |-> 404, message |-> "invalid report id"]

G_Respond(g) ==
    /\ gpc[g] = "respond"
    /\ gresponse' = [gresponse EXCEPT ![g] = RespondTo(g)]
    /\ gpc' = [gpc EXCEPT ![g] = "done"]
    /\ UNCHANGED <<envVars, reports_coll, uuids, trigVars, report_request,
                   running_doc, completed_report>>

get_report(g) ==
    \/ \E id \in RequestIds : G_FindRunning(g, id)
    \/ G_FindCompleted(g)
    \/ G_Respond(g)

\* ------------------------------------------------------------ specifications

Week == DaysPerWeek * SecondsPerDay

Observation(store_id, instant, status) ==
    [store_id |-> store_id,
     timestamp_utc |-> [parses |-> TRUE, instant |-> instant],
     status |-> status]

\* a document whose timestamp_utc is not "%Y-%m-%d %H:%M:%S.%f UTC"
Malformed(store_id) ==
    [store_id |-> store_id,
     timestamp_utc |-> [parses |-> FALSE, instant |-> 0],
     status |-> "active"]

InitRequests ==
    /\ reports_coll = <<InitialSentinel>>
    /\ uuids = 0
    /\ pc = [r \in TReqs |-> "start"]
    /\ report_id = [r \in TReqs |-> 0]
    /\ idx = [r \in TReqs |-> 0]
    /\ store_poll_data = [r \in TReqs |-> EmptyBuckets]
    /\ store_poll_data_per_day = [r \in TReqs |-> EmptyBuckets]
    /\ result = [r \in TReqs |-> <<>>]
    /\ exc = [r \in TReqs |-> "none"]
    /\ response = [r \in TReqs |-> [status_code |-> 0]]
    /\ gpc = [g \in GReqs |-> "start"]
    /\ report_request = [g \in GReqs |-> 0]
    /\ running_doc = [g \in GReqs |-> <<>>]
    /\ completed_report = [g \in GReqs |-> <<>>]
    /\ gresponse = [g \in GReqs |-> [status_code |-> 0]]

\* two stores, each with one observation, a day ago
TwoStores(now) ==
    {Observation(1, now - 25 * SecondsPerHour, "active"),
     Observation(2, now - 25 * SecondsPerHour, "inactive")}

\* Requests interleaving over a small data set.  The process runs at 12:30
\* UTC, on a Monday with two stores observed, or on a Tuesday with no store,
\* the two stores, or the two stores the second of which has a malformed
\* observation.
Init ==
    /\ \E day \in 0..1 :
          /\ now_utc = Week + day * SecondsPerDay + 12 * SecondsPerHour + 1800
          /\ store_status \in
               IF day > 0
               THEN {{}, TwoStores(now_utc),
                     {Observation(1, now_utc - 25 * SecondsPerHour, "active"),
                      Malformed(2)}}
               ELSE {TwoStores(now_utc)}
    /\ proc_offset = 0
    /\ timezone_coll = {}
    /\ menu_hours_coll = {}
    /\ InitRequests

Next ==
    \/ \E r \in TReqs : trigger_report(r)
    \/ \E g \in GReqs : get_report(g)

Spec == Init /\ [][Next]_vars

\* One uncontended run of trigger_report over varied data of one store.
ObservedAt(now) ==
    {now - 25 * SecondsPerHour, now - 25 * SecondsPerHour + 600,
     now - 23 * SecondsPerHour, now - 1800, now + 1800,
     now + 7 * SecondsPerHour}

Candidates(now) ==
    {Observation(1, t, s) : t \in ObservedAt(now), s \in {"active", "inactive"}}
    \cup {Malformed(1)}

PipeInit ==
    /\ now_utc \in {Week + day * SecondsPerDay + 12 * SecondsPerHour + 1800 :
                    day \in Weekdays}
    /\ proc_offset \in {UtcOffset("America/Chicago"), UtcOffset("UTC"),
                        UtcOffset("Asia/Kolkata")}
    /\ store_status \in {S \in SUBSET Candidates(now_utc) : Cardinality(S) <= MaxObs}
    /\ timezone_coll \in {{}, {[store_id |-> 1, timezone_str |-> "Asia/Kolkata"]}}
    /\ menu_hours_coll \in
         {{},
          {[store_id |-> 1, day |-> day, start_time_local |-> 6 * SecondsPerHour,
            end_time_local |-> 18 * SecondsPerHour] : day \in Weekdays}}
    /\ InitRequests

PipeNext == trigger_report(1)

PipeSpec == PipeInit /\ [][PipeNext]_vars

\* ------------------------------------------------------------ claims

Stores == get_unique_store_ids_from_poll

\* a trigger_report request between the start of its report generation and
\* its release of the sentinel
InFlight(r) == pc[r] \in {"generate", "release"}

\* C1: no reachable state has two report generations in flight.
C1_SingleFlight == Cardinality({r \in TReqs : InFlight(r)}) <= 1

\* C2: once a request that set the sentinel to running has ended, normally or
\* with an exception, the sentinel is not left running with that request's id.
C2_SentinelReleased ==
    \A r \in TReqs :
        (pc[r] \in {"done", "raised"} /\ report_id[r] # 0)
        => ~(Sentinel.status = "running" /\ Sentinel.report_id = report_id[r])

\* C3: a trigger_report request that reads the sentinel while it is running
\* ends at once: it draws no report id, leaves the reports collection (the
\* sentinel and the report documents) as it is, and answers 400 "Running" with
\* the report id stored in the sentinel.
C3_RejectedStartIsNoOp ==
    [][\A r \in TReqs :
          (pc[r] = "start" /\ pc'[r] # "start" /\ Sentinel.status = "running")
          => /\ pc'[r] = "done"
             /\ reports_coll' = reports_coll
             /\ uuids' = uuids
             /\ report_id'[r] = report_id[r]
             /\ response'[r] = [status_code |-> 400, message |-> "Running",
                                report_id |-> Sentinel.report_id]]_vars

\* a request was rejected while another request's run was in flight
C3_Witness ==
    \E r \in TReqs : \E q \in TReqs :
        /\ pc[r] = "done"
        /\ response[r].status_code = 400
        /\ report_id[r] = 0
        /\ InFlight(q)
        /\ response[r].report_id = report_id[q]

\* C4: get_report(R), for the id R of a run that answered "Complete", read
\* while the sentinel is not running, returns the rows that run produced.
C4_RetrievalAfterCompletion ==
    \A g \in GReqs : \A r \in TReqs :
        (/\ gpc[g] = "done"
         /\ running_doc[g] = <<>>
         /\ response[r].status_code = 200
         /\ response[r].report_id = report_request[g])
        => /\ gresponse[g].status_code = 200
           /\ gresponse[g].content = result[r]

\* C5: a get_report that read the sentinel as running answers 400 "Running"
\* with the sentinel's report id and no rows, whatever id was asked for.
C5_ReadsBlockedWhileRunning ==
    \A g \in GReqs :
        (gpc[g] = "done" /\ running_doc[g] # <<>>)
        => gresponse[g] = [status_code |-> 400, message |-> "Running",
                           report_id |-> running_doc[g][1].report_id]

\* the id asked for is that of another report, already persisted as complete
C5_Witness ==
    \E g \in GReqs :
        /\ gpc[g] = "done"
        /\ running_doc[g] # <<>>
        /\ completed_report[g] # <<>>
        /\ report_request[g] # running_doc[g][1].report_id
        /\ gresponse[g].status_code = 400

\* the pipeline of a store fails: a timestamp does not parse, or the
\* aggregation reads a weekday bucket that does not exist
SiteFails(store_id) ==
    \/ ~get_poll_data_of_store(store_id).ok
    \/ ~uptime_today(EmptyBuckets).ok

\* C6: a run is not ended by the failure of a site while another site's
\* pipeline does not fail, and the report of a run holds a row for every site
\* whose pipeline does not fail.
C6_PerSiteFailureIsolation ==
    \A r \in TReqs : \A i \in 1..Len(Stores) :
        ~SiteFails(Stores[i])
        => /\ pc[r] # "raised"
           /\ (pc[r] \in {"release", "done"} /\ report_id[r] # 0)
              => \E k \in 1..Len(result[r]) : result[r][k].store_id = Stores[i]

\* the store whose buckets a request's store_poll_data holds: the one of the
\* last iteration that got past get_poll_data_of_store (0: none yet)
Polled(r) == IF exc[r] = "KeyError" THEN idx[r] ELSE idx[r] - 1

\* C7: after get_poll_data_of_store, each weekday bucket holds one entry for
\* each observation of the store at or before the processing instant (UTC)
\* whose local weekday it is, and none for a later observation.
C7_FutureObservationsExcluded ==
    \A r \in TReqs :
        Polled(r) >= 1
        => \A day \in Weekdays :
              Len(store_poll_data[r][day]) =
                Cardinality({d \in store_status :
                    /\ d.store_id = Stores[Polled(r)]
                    /\ d.timestamp_utc.instant <= now_utc
                    /\ Weekday(utc_to_local(d.timestamp_utc.instant,
                           get_timezone_using_store_id(d.store_id))) = day})

RowBounded(row) ==
    /\ FNonNeg(row.uptime_last_hour) /\ FLeInt(row.uptime_last_hour, WindowHour)
    /\ FNonNeg(row.uptime_last_day) /\ FLeInt(row.uptime_last_day, WindowDay)
    /\ FNonNeg(row.uptime_last_week) /\ FLeInt(row.uptime_last_week, WindowWeek)
    /\ FNonNeg(row.downtime_last_hour)
    /\ FNonNeg(row.downtime_last_day)
    /\ FNonNeg(row.downtime_last_week)

\* C8: in every row generate_report produces, the uptime of each window lies
\* between 0 and the window's length (60 minutes, 24 hours, 168 hours), and
\* no downtime is negative.
C8_UptimeBounded ==
    \A r \in TReqs : \A k \in 1..Len(result[r]) : RowBounded(result[r][k])

\* a row with uptime in the last hour, from buckets one of whose hourly bins
\* is empty (NaN)
C8_Witness ==
    \E r \in TReqs :
        /\ pc[r] = "generate"
        /\ Len(result[r]) > 0
        /\ result[r][Len(result[r])].uptime_last_hour.n > 0
        /\ \E day \in Weekdays :
              \E i \in 1..Len(store_poll_data_per_day[r][day]) :
                  isnan(store_poll_data_per_day[r][day][i].status)

\* C9: while the sentinel is running, no report document with the sentinel's
\* report id is persisted as complete.
C9_RunningNamesUnfinishedReport ==
    Sentinel.status = "running"
    => find([report_id |-> Sentinel.report_id,
             report_status |-> "complete"]) = <<>>

\* C10: uptime_today reads the bucket of weekday (w - 1) mod 7, one of the
\* seven that exist, whatever the current weekday w, and so never fails on a
\* missing bucket.
C10_LastWeekdaySelection ==
    \A r \in TReqs :
        /\ exc[r] # "KeyError"
        /\ Polled(r) >= 1
           => /\ last_weekday \in DOMAIN store_poll_data_per_day[r]
              /\ last_weekday = (Weekday(DatetimeNow) - 1) % DaysPerWeek

=============================================================================
